---- MODULE Spec2Model ----
(***************************************************************************)
(* log-bin: the broadcast/channel engine (src/src/channel_manager.rs) and  *)
(* the two request handlers that drive it (src/src/main.rs).               *)
(*                                                                         *)
(* A Channel object is identified by a small integer (the Arc's pointee);  *)
(* the registry maps bucket ids to channel objects.  Every handler is cut  *)
(* at its await points and at each access to shared state, so that the     *)
(* interleavings of the multi-threaded runtime are explored.               *)
(***************************************************************************)
EXTENDS Integers, Sequences, FiniteSets, TLC

\* ---------------------------------------------------------------- constants
HISTORY_SIZE == 10
CHANNEL_CAPACITY == 100
MAX_SUBSCRIBERS_PER_STREAM == 30
\* crate::MAX_LOG_LINES_PER_MINUTE: used by record_logs, its definition is not
\* part of the sources at hand; the per-minute ceiling is given a small value
MAX_LOG_LINES_PER_MINUTE == 3

\* ------------------------------------------------------------------- bounds
\* channel objects that can ever be allocated
MaxChans == 3
\* non-empty lines of one post_events body
MaxLines == 2
\* lines already ingested when the history scenario starts
PreLogs == 10
\* lines posted during the history scenario (PreLogs + MaxLogs > HISTORY_SIZE)
MaxLogs == 1
\* lines posted during the two-producer scenario
MaxOrdLogs == 2
\* lines posted in the registry scenario
MaxRegLogs == 2
\* lines already sent to the waiting subscriber when the lag scenario starts
PreLag == 99
\* lines posted during the lag scenario (1 + PreLag + MaxLagLogs > CHANNEL_CAPACITY)
MaxLagLogs == 1
\* direct publish_suspension calls
MaxSuspensions == 1
\* lines posted during the fan-out scenario
MaxFanLogs == 1
\* largest count argument of a record_logs call (above the ceiling)
MaxCount == 4
\* the wall-clock minute at start, and the minute boundaries crossed afterwards
StartMinute == 1
MaxTicks == 2
\* lines posted during the rate scenario
MaxRateLogs == 1
\* characters of a post_events body in the parsing scenario
MaxBodyLen == 4

Chans == 1..MaxChans
\* stream requests (get_bucket with Accept: text/event-stream), one-shot each
Subs == {1, 2}
\* post_events requests that can be in flight at the same time
Posters == {1, 2}
\* the stream request that takes part in the history scenario
HistSubs == {1}
\* the stream request that takes part in the registry scenario
RegSubs == {1}
\* the stream request that takes part in the slow-consumer scenario
LifeSubs == {1}
\* fan-out scenario: the consumer that never pulls, and the one that keeps up
FanSlow == {1}
FanFast == {2}
NoChan == 0
\* threads that can be inside record_logs at the same time
Callers == {1, 2}
\* the one caller of the sequential rate scenario
RateSeq == {1}
\* count argument of the calls of the concurrent scenario (one line per call)
RaceCounts == {1}
Minutes == 0..(StartMinute + MaxTicks + 1)

\* A bucket id, cut at the separator ";max-subs=" (str::split of get_bucket).
PlainId == <<"bucket-aaaa">>
CappedId == <<"bucket-bbbb", "1">>
BucketIds == {PlainId, CappedId}

VARIABLES
    channels,   \* ChannelManager.channels : bucket id -> channel object (NoChan: absent)
    nextChan,   \* next channel object to allocate
    history,    \* Channel.history, per channel object
    hlock,      \* writer holding Channel.history's RwLock (0: none)
    clients,    \* Channel.clients key set, per channel object
    sent,       \* values accepted by Channel.sender, in send order
    rate,       \* suspended / log_count_current_minute / current_minute_timestamp
    sub,        \* the stream requests
    post,       \* the post_events requests
    gc,         \* the garbage collection task
    recheck,    \* channel objects held by a sleeping delayed re-check task
    nlogs,      \* lines accepted so far (names the log events)
    nsusp,      \* publish_suspension calls so far
    ingested,   \* every log event pushed to a channel's history, in push order
    named,      \* the bucket id each channel object was created for
    rec,        \* the record_logs calls in progress (one per calling thread)
    clock,      \* SystemTime::now() in whole minutes since the epoch
    tally,      \* per channel and minute, the counts of the calls that read that minute
    text,       \* the submitted lines, by line number
    panicked    \* line numbers at which a post_events request unwound

vars == <<channels, nextChan, history, hlock, clients, sent, rate, sub, post, gc,
          recheck, nlogs, nsusp, ingested, named, rec, clock, tally, text, panicked>>

Range(q) == {q[i] : i \in 1..Len(q)}

\* ------------------------------------------------------------------ parsers
\* A string is the sequence of its characters.  Bodies are drawn from an
\* alphabet without space, comma, colon, parenthesis, backslash or digit; the
\* parsers below are the source's, cut down to what such inputs can reach.
DQ == "\""
SQ == "'"
NL == "\n"
Chars == {"k", "A", "=", DQ, ";", "{", "}"}
Bodies == UNION {[1..n -> Chars \cup {NL}] : n \in 1..MaxBodyLen}
\* a line of plain text, like the "Hello!" of the parser's own test
PlainLine == <<"A">>

\* Below, "the one element of { f(x) : x \in {e} }" is f(e) with e computed
\* once, as a local variable of the source is.
The(set) == CHOOSE r \in set : TRUE

After(w, i) == SubSeq(w, i + 1, Len(w))
Find(w, ch) ==
    IF \E i \in 1..Len(w) : w[i] = ch
    THEN CHOOSE i \in 1..Len(w) : w[i] = ch /\ \A j \in 1..(i - 1) : w[j] # ch
    ELSE 0

\* str::split(sep): the pieces between the separators, empty ones included
RECURSIVE Split(_, _)
Split(w, sep) ==
    LET at == Find(w, sep)
    IN  IF at = 0 THEN <<w>>
        ELSE <<SubSeq(w, 1, at - 1)>> \o Split(After(w, at), sep)

IsNonEmpty(line) == line # <<>>

\* main.rs 254: body.split('\n').filter(|line| !line.is_empty())
SplitLines(body) == SelectSeq(Split(body, NL), IsNonEmpty)

\* str::trim
RECURSIVE TrimStart(_)
TrimStart(w) == IF w # <<>> /\ w[1] = " " THEN TrimStart(Tail(w)) ELSE w
RECURSIVE TrimEnd(_)
TrimEnd(w) ==
    IF w # <<>> /\ w[Len(w)] = " " THEN TrimEnd(SubSeq(w, 1, Len(w) - 1)) ELSE w
Trim(w) == TrimEnd(TrimStart(w))

\* HashMap<String, String>: insert replaces the value of a key already there
EmptyMap == [x \in {} |-> <<>>]
Insert(map, key, value) ==
    [x \in DOMAIN map \cup {key} |-> IF x = key THEN value ELSE map[x]]
RECURSIVE InsertAll(_, _)
InsertAll(map, entries) ==
    IF entries = <<>> THEN map
    ELSE InsertAll(Insert(map, entries[1][1], entries[1][2]), Tail(entries))

None == [some |-> FALSE, panic |-> FALSE, map |-> EmptyMap]
Some(m) == [some |-> TRUE, panic |-> FALSE, map |-> m]
Panic == [some |-> FALSE, panic |-> TRUE, map |-> EmptyMap]

\* parsers/mod.rs 48-67: serde_json::from_str, then Value::Object only.  With
\* no colon in the input the one JSON object is the empty one.
parse_json(input) == IF input = <<"{", "}">> THEN Some(EmptyMap) ELSE None

\* sfv (RFC 8941): keys, tokens and strings
KeyStart == {"k", "*"}
KeyChar == KeyStart \cup {"_", "-", "."}
TokenStart == {"k", "A", "*"}
TokenChar == TokenStart \cup {"!", "#", "$", "%", "&", SQ, "+", "-", ".", "^", "_",
                              "|", "~", ":", "/"}

\* length of the longest prefix of w made of characters of cs
RunLen(w, cs) ==
    IF w = <<>> \/ w[1] \notin cs THEN 0
    ELSE CHOOSE i \in 1..Len(w) :
            /\ \A j \in 1..i : w[j] \in cs
            /\ i = Len(w) \/ w[i + 1] \notin cs

KeyLen(w) == IF w = <<>> \/ w[1] \notin KeyStart THEN 0 ELSE RunLen(w, KeyChar)

\* length of the bare item w starts with (0: none): a string up to its
\* closing quote, or a token
BareLen(w) ==
    IF w = <<>> THEN 0
    ELSE IF w[1] = DQ
         THEN LET close == Find(Tail(w), DQ)
              IN  IF close = 0 THEN 0 ELSE close + 1
         ELSE IF w[1] \in TokenStart THEN RunLen(w, TokenChar) ELSE 0

\* parsers/mod.rs 182-193: bare_item_to_string
bare_item_to_string(item) ==
    IF item[1] = DQ THEN SubSeq(item, 2, Len(item) - 1) ELSE item

True == <<"t", "r", "u", "e">>
SfvFail == [ok |-> FALSE, rest |-> <<>>, value |-> <<>>, params |-> <<>>]

\* parameters: *( ";" key [ "=" bare-item ] ), collected in order
RECURSIVE SfvParams(_, _)
SfvParams(w, acc) ==
    IF w = <<>> \/ w[1] # ";"
    THEN [ok |-> TRUE, rest |-> w, value |-> <<>>, params |-> acc]
    ELSE LET r1 == Tail(w)
             kl == KeyLen(r1)
             key == SubSeq(r1, 1, kl)
             r2 == After(r1, kl)
         IN  IF kl = 0 THEN SfvFail
             ELSE IF r2 # <<>> /\ r2[1] = "="
                  THEN LET bl == BareLen(Tail(r2))
                       IN  IF bl = 0 THEN SfvFail
                           ELSE SfvParams(After(Tail(r2), bl),
                                          Append(acc, <<key, bare_item_to_string(
                                                            SubSeq(Tail(r2), 1, bl))>>))
                  ELSE SfvParams(r2, Append(acc, <<key, True>>))

\* an item: bare item, then parameters
SfvItemAt(w) ==
    The({ IF bl = 0 THEN SfvFail
          ELSE [SfvParams(After(w, bl), <<>>) EXCEPT
                   !.value = bare_item_to_string(SubSeq(w, 1, bl))] :
          bl \in {BareLen(w)} })

\* sfv::Parser::parse::<Item>() and ::<List>() of an input without comma or
\* parenthesis: one item, nothing after it
SfvItem(input) ==
    The({ IF item.ok /\ item.rest = <<>> THEN item ELSE SfvFail :
          item \in {SfvItemAt(input)} })

\* sfv::Parser::parse::<Dictionary>() of an input without comma: one member,
\* key alone (value true, then parameters) or key "=" item
SfvDictionary(input) ==
    LET kl == KeyLen(input)
        key == SubSeq(input, 1, kl)
        rest == After(input, kl)
    IN  IF kl = 0 THEN SfvFail
        ELSE IF rest # <<>> /\ rest[1] = "="
             THEN LET item == SfvItemAt(Tail(rest))
                  IN  IF item.ok /\ item.rest = <<>>
                      THEN [item EXCEPT !.params = <<<<key, item.value>>>> \o @]
                      ELSE SfvFail
             ELSE LET ps == SfvParams(rest, <<>>)
                  IN  IF ps.ok /\ ps.rest = <<>>
                      THEN [ps EXCEPT !.params = <<<<key, True>>>> \o @]
                      ELSE SfvFail

\* parsers/mod.rs 163-169: the quotes are cut off with value[1..len - 1], which
\* panics when the value is a single quote character (1 > len - 1)
Quoted(value) ==
    /\ value # <<>>
    /\ \/ value[1] = DQ /\ value[Len(value)] = DQ
       \/ value[1] = SQ /\ value[Len(value)] = SQ
UnquotePanics(value) == Quoted(value) /\ 1 > Len(value) - 1
Unquote(value) == IF Quoted(value) THEN SubSeq(value, 2, Len(value) - 1) ELSE value

\* parsers/mod.rs 156-173, one pair
PairKey(pair) == Trim(SubSeq(pair, 1, Find(pair, "=") - 1))
PairValue(pair) == Trim(After(pair, Find(pair, "=")))

RECURSIVE LegacyPairs(_, _)
LegacyPairs(pairs, map) ==
    IF pairs = <<>> THEN map
    ELSE LET pair == Trim(pairs[1])
         IN  IF Find(pair, "=") = 0 THEN LegacyPairs(Tail(pairs), map)
             ELSE LegacyPairs(Tail(pairs),
                              Insert(map, PairKey(pair), Unquote(PairValue(pair))))

\* parsers/mod.rs 147-180
parse_legacy_structured_headers(input) ==
    IF Find(input, "=") = 0 THEN None
    ELSE LET pairs == Split(input, ";")
             result == LegacyPairs(pairs, EmptyMap)
         IN  IF \E i \in 1..Len(pairs) :
                    /\ Find(Trim(pairs[i]), "=") # 0
                    /\ UnquotePanics(PairValue(Trim(pairs[i])))
             THEN Panic
             ELSE IF DOMAIN result = {} THEN None ELSE Some(result)

\* parsers/mod.rs 69-145
parse_structured_headers(input) ==
    The({ IF dict.ok
          THEN Some(InsertAll(EmptyMap, dict.params))
          ELSE The({ IF item.ok /\ item.params # <<>>
                     THEN Some(Insert(EmptyMap, <<"item0">>, item.value))
                     ELSE parse_legacy_structured_headers(input) :
                     item \in {SfvItem(input)} }) :
          dict \in {SfvDictionary(input)} })

\* parsers/mod.rs 218-233: one FieldData per entry (its colour is derived
\* from the key alone and left out)
create_fields(data) == data

Unparsed == [panic |-> FALSE, parser |-> "none", fields |-> EmptyMap]

\* parsers/mod.rs 25-46: ParsedEvent::parse
parse(input_string) ==
    LET js == parse_json(input_string)
    IN  IF js.some
        THEN [panic |-> FALSE, parser |-> "json", fields |-> create_fields(js.map)]
        ELSE The({ IF sh.panic
                   THEN [Unparsed EXCEPT !.panic = TRUE]
                   ELSE IF sh.some
                        THEN [panic |-> FALSE, parser |-> "structuredHeaders",
                              fields |-> create_fields(sh.map)]
                        ELSE Unparsed :
                   sh \in {parse_structured_headers(input_string)} })

\* the line submitted as number id (plain text before the scenario starts)
TextOf(id) == IF id \in DOMAIN text THEN text[id] ELSE PlainLine


\* ------------------------------------------------------------------- events
\* SseEvent { event_type, data }: data is the serialised payload, kept as the
\* tuple of the values it is built from.  A LogEvent is built from the line
\* (its number stands for its time), the parser's label and its fields.
LogData(id, line, event) ==
    [event_type |-> "log", data |-> <<id, line, event.parser, event.fields>>]

LogSse(id) == LogData(id, TextOf(id), parse(TextOf(id)))
StatsSse(client_count, conn_count) ==
    [event_type |-> "stats", data |-> <<client_count, conn_count>>]
SuspensionSse(suspended) ==
    [event_type |-> "suspension", data |-> <<IF suspended THEN 1 ELSE 0>>]

\* ------------------------------------------------------------------ Channel
ChannelNewRate == [suspended |-> FALSE, log_count |-> 0, minute |-> 0]

\* sender.receiver_count()
subscriber_count(c) ==
    Cardinality({s \in Subs : sub[s].rx /\ sub[s].chan = c})

\* the registry's index holds c
Indexed(c) == \E n \in BucketIds : channels[n] = c

\* mutant: a send reaches the receivers only while the topic is indexed
SendIfIndexed(c, ev) ==
    IF subscriber_count(c) = 0 \/ ~Indexed(c) THEN sent[c] ELSE Append(sent[c], ev)

\* broadcast::Sender::send: with no receiver the value is returned to the
\* caller and not queued; the result is discarded (let _ =).
Send(c, ev) ==
    IF subscriber_count(c) = 0 THEN sent[c] ELSE Append(sent[c], ev)

\* the requests after a send on c: each live receiver of c is owed one more event
Owed(c) ==
    [s \in Subs |-> IF sub[s].rx /\ sub[s].chan = c
                    THEN [sub[s] EXCEPT !.due = @ + 1]
                    ELSE sub[s]]

\* history.push(sse_event.clone())
HistoryPush(h, ev) == Append(h, ev)

\* mutants of the trim: none at all, and the newest event dropped
HistoryTrimNever(h) == h
HistoryTrimNewest(h) ==
    IF Len(h) > HISTORY_SIZE THEN SubSeq(h, 1, Len(h) - 1) ELSE h

\* if history.len() > HISTORY_SIZE { history.remove(0); }
HistoryTrim(h) == IF Len(h) > HISTORY_SIZE THEN Tail(h) ELSE h

\* ---------------------------------------------------------- ChannelManager
IsVacant(n) == channels[n] = NoChan

\* mutants: a vacant entry receives the object created last, not a new one;
\* every call creates an object, whether the entry is vacant or not
GetOrCreateChanReused(n) ==
    IF IsVacant(n) THEN (IF nextChan > 1 THEN nextChan - 1 ELSE nextChan)
    ELSE channels[n]
GetOrCreateChanAlways(n) == nextChan

\* channels.entry(name).or_insert_with(|| Arc::new(Channel::new(name))).clone()
GetOrCreateChan(n) == IF IsVacant(n) THEN nextChan ELSE channels[n]

\* Channel::new (45-55) builds the object the vacant entry receives
GetOrCreate(n) ==
    IF IsVacant(n)
    THEN /\ channels' = [channels EXCEPT ![n] = GetOrCreateChan(n)]
         /\ nextChan' = nextChan + 1
         /\ history' = [history EXCEPT ![nextChan] = <<>>]
         /\ hlock' = [hlock EXCEPT ![nextChan] = 0]
         /\ clients' = [clients EXCEPT ![nextChan] = {}]
         /\ sent' = [sent EXCEPT ![nextChan] = <<>>]
         /\ rate' = [rate EXCEPT ![nextChan] = ChannelNewRate]
         /\ named' = [named EXCEPT ![nextChan] = n]
    ELSE /\ UNCHANGED <<channels, nextChan, history, hlock, clients, sent, rate,
                        named>>

\* handler futures that own an Arc<Channel> of c
SubHoldsHandle(s) ==
    sub[s].pc \in {"got", "admitted", "inserted", "recvd", "subscribed"}
PostHoldsHandle(p) == post[p].pc # "idle"
RecHoldsHandle(k) == rec[k].pc \notin {"idle", "returned"}

\* every Arc<Channel> of c is gone: the Sender is dropped and the feed closes
Closed(c) ==
    /\ c < nextChan
    /\ \A n \in BucketIds : channels[n] # c
    /\ \A s \in Subs : ~(SubHoldsHandle(s) /\ sub[s].chan = c)
    /\ \A p \in Posters : ~(PostHoldsHandle(p) /\ post[p].chan = c)
    /\ \A k \in Callers : ~(RecHoldsHandle(k) /\ rec[k].chan = c)
    /\ c \notin recheck

\* ---------------------------------------------------------------- get_bucket
ParseUsize(str) == IF str = "1" THEN 1 ELSE IF str = "2" THEN 2 ELSE -1

\* bucket_id.split(";max-subs=").nth(1).and_then(parse).unwrap_or(MAX)
MaxSubsOf(id) ==
    IF Len(id) >= 2 /\ ParseUsize(id[2]) >= 0
    THEN ParseUsize(id[2])
    ELSE MAX_SUBSCRIBERS_PER_STREAM

IdleSub == [pc |-> "idle", id |-> <<>>, chan |-> NoChan, rx |-> FALSE, next |-> 0,
            snapshot |-> <<>>, idx |-> 0, out |-> <<>>, guard |-> "none",
            end |-> "none", snapAt |-> 0, start |-> 0, due |-> 0]

IdlePost == [pc |-> "idle", id |-> <<>>, chan |-> NoChan, first |-> 0, lines |-> 0,
             line |-> 0, sse_event |-> <<>>]

ManagerFree == gc.pc = "idle"

IdleRec == [pc |-> "idle", chan |-> NoChan, count |-> 0, now_minutes |-> 0,
            stored_minute |-> 0, new_count |-> 0, ret |-> "none"]

\* nothing has called record_logs, no line with a text of its own was posted
Quiet ==
    /\ text = <<>>
    /\ panicked = {}
    /\ rec = [k \in Callers |-> IdleRec]
    /\ clock = StartMinute
    /\ tally = [c \in Chans |-> [m \in Minutes |-> 0]]

Init ==
    /\ Quiet
    /\ channels = [n \in BucketIds |-> NoChan]
    /\ nextChan = 1
    /\ history = [c \in Chans |-> <<>>]
    /\ hlock = [c \in Chans |-> 0]
    /\ clients = [c \in Chans |-> {}]
    /\ sent = [c \in Chans |-> <<>>]
    /\ rate = [c \in Chans |-> ChannelNewRate]
    /\ sub = [s \in Subs |-> IdleSub]
    /\ post = [p \in Posters |-> IdlePost]
    /\ gc = [pc |-> "idle", todo |-> {}, to_remove |-> {}]
    /\ recheck = {}
    /\ nlogs = 0
    /\ nsusp = 0
    /\ ingested = [c \in Chans |-> <<>>]
    /\ named = [c \in Chans |-> <<>>]

\* ------------------------------------------------- get_bucket (event stream)
\* main.rs 192-195: manager.write().await; get_or_create_channel(&bucket_id)
GetChan(s, n) ==
    /\ sub[s].pc = "idle"
    /\ ManagerFree
    /\ GetOrCreateChan(n) \in Chans
    /\ GetOrCreate(n)
    /\ sub' = [sub EXCEPT ![s].pc = "got", ![s].id = n, ![s].chan = GetOrCreateChan(n)]
    /\ UNCHANGED <<post, gc, recheck, nlogs, nsusp, ingested,
                   rec, clock, tally, text, panicked>>

\* mutant: one subscriber too many is let in
AtCapacityOffByOne(c, id) == subscriber_count(c) > MaxSubsOf(id)

\* main.rs 197: channel.subscriber_count() >= max_subs
AtCapacity(c, id) == subscriber_count(c) >= MaxSubsOf(id)

\* main.rs 197-200: rejected with 429, the handle is dropped
Reject(s) ==
    /\ sub[s].pc = "got"
    /\ AtCapacity(sub[s].chan, sub[s].id)
    /\ sub' = [sub EXCEPT ![s].pc = "rejected"]
    /\ UNCHANGED <<channels, nextChan, history, hlock, clients, sent, rate, post, gc,
                   recheck, nlogs, nsusp, ingested, named,
                   rec, clock, tally, text, panicked>>

\* main.rs 197-205: admitted, subscribe() is called
Admit(s) ==
    /\ sub[s].pc = "got"
    /\ ~AtCapacity(sub[s].chan, sub[s].id)
    /\ sub' = [sub EXCEPT ![s].pc = "admitted"]
    /\ UNCHANGED <<channels, nextChan, history, hlock, clients, sent, rate, post, gc,
                   recheck, nlogs, nsusp, ingested, named,
                   rec, clock, tally, text, panicked>>

\* channel_manager.rs 62-63: a fresh uuid (the request's own number) is inserted
ClientsInsert(cs, id) == cs \cup {id}

SubInsert(s) ==
    /\ sub[s].pc = "admitted"
    /\ clients' = [clients EXCEPT ![sub[s].chan] = ClientsInsert(@, s)]
    /\ sub' = [sub EXCEPT ![s].pc = "inserted"]
    /\ UNCHANGED <<channels, nextChan, history, hlock, sent, rate, post, gc, recheck,
                   nlogs, nsusp, ingested, named,
                   rec, clock, tally, text, panicked>>

\* channel_manager.rs 65: the receiver starts at the sender's tail
SubRecv(s) ==
    /\ sub[s].pc = "inserted"
    /\ sub' = [sub EXCEPT ![s].pc = "recvd", ![s].rx = TRUE,
                          ![s].next = Len(sent[sub[s].chan]),
                          ![s].start = Len(sent[sub[s].chan])]
    /\ UNCHANGED <<channels, nextChan, history, hlock, clients, sent, rate, post, gc,
                   recheck, nlogs, nsusp, ingested, named,
                   rec, clock, tally, text, panicked>>

\* channel_manager.rs 66-88: history.read().await.clone(), the guard is created
\* and moved into the stream, subscribe() returns
\* mutant: the clone misses the newest event of the history
SnapshotStale(h) == IF h = <<>> THEN h ELSE SubSeq(h, 1, Len(h) - 1)

Snapshot(h) == h

\* mutant: the snapshot is cloned without taking the read lock
SubSnapUnlocked(s) ==
    /\ sub[s].pc = "recvd"
    /\ sub' = [sub EXCEPT ![s].pc = "subscribed",
                          ![s].snapshot = Snapshot(history[sub[s].chan]),
                          ![s].snapAt = Len(ingested[sub[s].chan]),
                          ![s].guard = "held"]
    /\ UNCHANGED <<channels, nextChan, history, hlock, clients, sent, rate, post, gc,
                   recheck, nlogs, nsusp, ingested, named,
                   rec, clock, tally, text, panicked>>

SubSnap(s) ==
    /\ sub[s].pc = "recvd"
    /\ hlock[sub[s].chan] = 0
    /\ sub' = [sub EXCEPT ![s].pc = "subscribed",
                          ![s].snapshot = Snapshot(history[sub[s].chan]),
                          ![s].snapAt = Len(ingested[sub[s].chan]),
                          ![s].guard = "held"]
    /\ UNCHANGED <<channels, nextChan, history, hlock, clients, sent, rate, post, gc,
                   recheck, nlogs, nsusp, ingested, named,
                   rec, clock, tally, text, panicked>>

\* The handler future is dropped (client gone) while subscribe() is pending on
\* clients.write().await (line 63): nothing has been registered yet.
CancelBeforeInsert(s) ==
    /\ sub[s].pc = "admitted"
    /\ sub' = [sub EXCEPT ![s].pc = "cancelled", ![s].end = "cancelled"]
    /\ UNCHANGED <<channels, nextChan, history, hlock, clients, sent, rate, post, gc,
                   recheck, nlogs, nsusp, ingested, named,
                   rec, clock, tally, text, panicked>>

\* The handler future is dropped while subscribe() is pending on
\* history.read().await (line 66, a writer holds the lock): the receiver of
\* line 65 is dropped; the ClientGuard of line 69 does not exist yet.
CancelInSubscribe(s) ==
    /\ sub[s].pc = "recvd"
    /\ hlock[sub[s].chan] # 0
    /\ sub' = [sub EXCEPT ![s].pc = "cancelled", ![s].rx = FALSE,
                          ![s].end = "cancelled"]
    /\ UNCHANGED <<channels, nextChan, history, hlock, clients, sent, rate, post, gc,
                   recheck, nlogs, nsusp, ingested, named,
                   rec, clock, tally, text, panicked>>

\* channel_manager.rs 172-180
get_stats(c) == StatsSse(Cardinality(clients[c]), subscriber_count(c))

\* main.rs 206-230 with channel_manager.rs 163-170: get_stats, publish_stats,
\* the response (owning the stream) is returned and the handle is dropped
StatsPublish(s) ==
    /\ sub[s].pc = "subscribed"
    /\ sent' = [sent EXCEPT ![sub[s].chan] = Send(sub[s].chan, get_stats(sub[s].chan))]
    /\ sub' = [Owed(sub[s].chan) EXCEPT ![s].pc = "stream"]
    /\ UNCHANGED <<channels, nextChan, history, hlock, clients, rate, post, gc,
                   recheck, nlogs, nsusp, ingested, named,
                   rec, clock, tally, text, panicked>>

\* mutant: dropping the guard spawns nothing
GuardDropForgets(g) == g

\* ClientGuard::drop (23-32): the removal is handed to a spawned task
GuardDrop(g) == IF g = "held" THEN "spawned" ELSE g

\* the stream (receiver, remaining snapshot, guard) is dropped
StreamDrop(s, why) ==
    sub' = [sub EXCEPT ![s].pc = "ended", ![s].rx = FALSE,
                       ![s].guard = GuardDrop(sub[s].guard), ![s].end = why]

\* broadcast::Receiver::recv, as the stream's loop uses it
Lagging(s) == Len(sent[sub[s].chan]) - sub[s].next > CHANNEL_CAPACITY
InReplay(s) == sub[s].idx < Len(sub[s].snapshot)

\* channel_manager.rs 79-81: phase 1, one history event per pull
PollReplay(s) ==
    /\ sub[s].pc = "stream"
    /\ InReplay(s)
    /\ sub' = [sub EXCEPT ![s].idx = @ + 1,
                          ![s].out = Append(@, sub[s].snapshot[sub[s].idx + 1])]
    /\ UNCHANGED <<channels, nextChan, history, hlock, clients, sent, rate, post, gc,
                   recheck, nlogs, nsusp, ingested, named,
                   rec, clock, tally, text, panicked>>

\* mutant: the live feed is pulled while history events are still to be replayed
PollLiveEarly(s) ==
    /\ sub[s].pc = "stream"
    /\ ~Lagging(s)
    /\ sub[s].next < Len(sent[sub[s].chan])
    /\ sub' = [sub EXCEPT ![s].next = @ + 1,
                          ![s].out = Append(@, sent[sub[s].chan][sub[s].next + 1])]
    /\ UNCHANGED <<channels, nextChan, history, hlock, clients, sent, rate, post, gc,
                   recheck, nlogs, nsusp, ingested, named,
                   rec, clock, tally, text, panicked>>

\* channel_manager.rs 84-86: phase 2, recv() returns Ok(event)
PollLive(s) ==
    /\ sub[s].pc = "stream"
    /\ ~InReplay(s)
    /\ ~Lagging(s)
    /\ sub[s].next < Len(sent[sub[s].chan])
    /\ sub' = [sub EXCEPT ![s].next = @ + 1,
                          ![s].out = Append(@, sent[sub[s].chan][sub[s].next + 1])]
    /\ UNCHANGED <<channels, nextChan, history, hlock, clients, sent, rate, post, gc,
                   recheck, nlogs, nsusp, ingested, named,
                   rec, clock, tally, text, panicked>>

\* mutant: on Err(Lagged) the loop goes on from the oldest retained event
PollLaggedCatchUp(s) ==
    /\ sub[s].pc = "stream"
    /\ ~InReplay(s)
    /\ Lagging(s)
    /\ sub' = [sub EXCEPT
                 ![s].next = Len(sent[sub[s].chan]) - CHANNEL_CAPACITY + 1,
                 ![s].out = Append(@, sent[sub[s].chan][Len(sent[sub[s].chan])
                                                         - CHANNEL_CAPACITY + 1])]
    /\ UNCHANGED <<channels, nextChan, history, hlock, clients, sent, rate, post, gc,
                   recheck, nlogs, nsusp, ingested, named,
                   rec, clock, tally, text, panicked>>

\* channel_manager.rs 84: recv() returns Err(Lagged), the loop ends
PollLagged(s) ==
    /\ sub[s].pc = "stream"
    /\ ~InReplay(s)
    /\ Lagging(s)
    /\ StreamDrop(s, "lagged")
    /\ UNCHANGED <<channels, nextChan, history, hlock, clients, sent, rate, post, gc,
                   recheck, nlogs, nsusp, ingested, named,
                   rec, clock, tally, text, panicked>>

\* channel_manager.rs 84: recv() returns Err(Closed), the loop ends
PollClosed(s) ==
    /\ sub[s].pc = "stream"
    /\ ~InReplay(s)
    /\ ~Lagging(s)
    /\ sub[s].next = Len(sent[sub[s].chan])
    /\ Closed(sub[s].chan)
    /\ StreamDrop(s, "closed")
    /\ UNCHANGED <<channels, nextChan, history, hlock, clients, sent, rate, post, gc,
                   recheck, nlogs, nsusp, ingested, named,
                   rec, clock, tally, text, panicked>>

\* the consumer goes away: the response body is dropped, polled or not
CancelStream(s) ==
    /\ sub[s].pc = "stream"
    /\ StreamDrop(s, "cancelled")
    /\ UNCHANGED <<channels, nextChan, history, hlock, clients, sent, rate, post, gc,
                   recheck, nlogs, nsusp, ingested, named,
                   rec, clock, tally, text, panicked>>

\* channel_manager.rs 27-30: clients.write().await.remove(&client_id)
ClientsRemove(cs, id) == cs \ {id}

ReleaseTask(s) ==
    /\ sub[s].guard = "spawned"
    /\ clients' = [clients EXCEPT ![sub[s].chan] = ClientsRemove(@, s)]
    /\ sub' = [sub EXCEPT ![s].guard = "removed"]
    /\ UNCHANGED <<channels, nextChan, history, hlock, sent, rate, post, gc, recheck,
                   nlogs, nsusp, ingested, named,
                   rec, clock, tally, text, panicked>>

\* --------------------------------------------------------------- post_events
\* main.rs 254-269: the non-empty lines are numbered, the channel is resolved
PostLines(p, n, lines) ==
    /\ post[p].pc = "idle"
    /\ ManagerFree
    /\ GetOrCreateChan(n) \in Chans
    /\ GetOrCreate(n)
    /\ nlogs' = nlogs + Len(lines)
    /\ text' = [i \in DOMAIN text \cup ((nlogs + 1)..(nlogs + Len(lines))) |->
                  IF i \in DOMAIN text THEN text[i] ELSE lines[i - nlogs]]
    /\ post' = [post EXCEPT ![p] = [pc |-> "loop", id |-> n,
                                    chan |-> GetOrCreateChan(n),
                                    first |-> nlogs + 1, lines |-> Len(lines),
                                    line |-> 1, sse_event |-> <<>>]]
    /\ UNCHANGED <<sub, gc, recheck, nsusp, ingested,
                   rec, clock, tally, panicked>>

\* main.rs 250-269: a body of k non-empty lines of plain text
PostGet(p, n, k) == PostLines(p, n, [i \in 1..k |-> PlainLine])

\* main.rs 250-269: any body; one without a non-empty line is answered 400
\* and touches nothing
PostBody(p, n, body) ==
    /\ SplitLines(body) # <<>>
    /\ PostLines(p, n, SplitLines(body))

\* the line the loop of main.rs 271 is at
CurrentId(p) == post[p].first + post[p].line - 1
CurrentLine(p) == TextOf(CurrentId(p))

\* main.rs 272-273: event.parse() panics; the request's task unwinds, its
\* handle is dropped, the rest of the batch is never published
PostPanic(p) ==
    /\ post[p].pc = "loop"
    /\ parse(CurrentLine(p)).panic
    /\ panicked' = panicked \cup {CurrentId(p)}
    /\ post' = [post EXCEPT ![p] = IdlePost]
    /\ UNCHANGED <<channels, nextChan, history, hlock, clients, sent, rate, sub, gc,
                   recheck, nlogs, nsusp, ingested, named, rec, clock, tally, text>>

\* the event of the current line (main.rs 272-280, channel_manager.rs 145-149)
CurrentEvent(p) == LogSse(CurrentId(p))

\* mutant: publish_log counts the line against the rate window
PubPushCounted(p) ==
    /\ post[p].pc = "loop"
    /\ hlock[post[p].chan] = 0
    /\ hlock' = [hlock EXCEPT ![post[p].chan] = p]
    /\ \E event \in {parse(CurrentLine(p))} :
          /\ ~event.panic
          /\ \E sse_event \in {LogData(CurrentId(p), CurrentLine(p), event)} :
                /\ history' = [history EXCEPT
                                  ![post[p].chan] = HistoryPush(@, sse_event)]
                /\ ingested' = [ingested EXCEPT
                                   ![post[p].chan] = Append(@, sse_event)]
                /\ post' = [post EXCEPT ![p].pc = "pushed",
                                        ![p].sse_event = sse_event]
    /\ rate' = [rate EXCEPT ![post[p].chan].log_count = @ + 1]
    /\ UNCHANGED <<channels, nextChan, clients, sent, sub, gc, recheck, nlogs,
                   nsusp, named, rec, clock, tally, text, panicked>>

\* main.rs 272-282 and channel_manager.rs 145-153: the line is parsed, the
\* event built and serialised (sse_event, kept for the send);
\* history.write().await; push
PubPush(p) ==
    /\ post[p].pc = "loop"
    /\ hlock[post[p].chan] = 0
    /\ hlock' = [hlock EXCEPT ![post[p].chan] = p]
    /\ \E event \in {parse(CurrentLine(p))} :
          /\ ~event.panic
          /\ \E sse_event \in {LogData(CurrentId(p), CurrentLine(p), event)} :
                /\ history' = [history EXCEPT
                                  ![post[p].chan] = HistoryPush(@, sse_event)]
                /\ ingested' = [ingested EXCEPT
                                   ![post[p].chan] = Append(@, sse_event)]
                /\ post' = [post EXCEPT ![p].pc = "pushed",
                                        ![p].sse_event = sse_event]
    /\ UNCHANGED <<channels, nextChan, clients, sent, rate, sub, gc, recheck, nlogs,
                   nsusp, named,
                   rec, clock, tally, text, panicked>>

\* channel_manager.rs 154-157: trim, drop(history)
PubTrim(p) ==
    /\ post[p].pc = "pushed"
    /\ history' = [history EXCEPT ![post[p].chan] = HistoryTrim(@)]
    /\ hlock' = [hlock EXCEPT ![post[p].chan] = 0]
    /\ post' = [post EXCEPT ![p].pc = "written"]
    /\ UNCHANGED <<channels, nextChan, clients, sent, rate, sub, gc, recheck, nlogs,
                   nsusp, ingested, named,
                   rec, clock, tally, text, panicked>>

\* mutant: the send waits for room while a live receiver has a full backlog
PubSendBackpressure(p) ==
    /\ post[p].pc = "written"
    /\ \A s \in Subs :
          (sub[s].rx /\ sub[s].chan = post[p].chan) =>
              Len(sent[post[p].chan]) - sub[s].next < CHANNEL_CAPACITY
    /\ sent' = [sent EXCEPT ![post[p].chan] = Send(post[p].chan, post[p].sse_event)]
    /\ post' = [post EXCEPT ![p] = IF post[p].line = post[p].lines
                                   THEN IdlePost
                                   ELSE [@ EXCEPT !.pc = "loop", !.line = @ + 1,
                                                  !.sse_event = <<>>]]
    /\ sub' = Owed(post[p].chan)
    /\ UNCHANGED <<channels, nextChan, history, hlock, clients, rate, gc,
                   recheck, nlogs, nsusp, ingested, named,
                   rec, clock, tally, text, panicked>>

\* channel_manager.rs 160 and main.rs 271-285: send, next line or 204
PubSend(p) ==
    /\ post[p].pc = "written"
    /\ sent' = [sent EXCEPT ![post[p].chan] = Send(post[p].chan, post[p].sse_event)]
    /\ post' = [post EXCEPT ![p] = IF post[p].line = post[p].lines
                                   THEN IdlePost
                                   ELSE [@ EXCEPT !.pc = "loop", !.line = @ + 1,
                                                  !.sse_event = <<>>]]
    /\ sub' = Owed(post[p].chan)
    /\ UNCHANGED <<channels, nextChan, history, hlock, clients, rate, gc,
                   recheck, nlogs, nsusp, ingested, named,
                   rec, clock, tally, text, panicked>>

\* mutant: the suspension event is kept in the history like a log event
PublishSuspensionKept(n, b) ==
    /\ channels[n] # NoChan
    /\ hlock[channels[n]] = 0
    /\ nsusp' = nsusp + 1
    /\ history' = [history EXCEPT
                      ![channels[n]] = HistoryTrim(HistoryPush(@, SuspensionSse(b)))]
    /\ sent' = [sent EXCEPT ![channels[n]] = Send(channels[n], SuspensionSse(b))]
    /\ sub' = Owed(channels[n])
    /\ UNCHANGED <<channels, nextChan, hlock, clients, rate, post, gc, recheck, nlogs,
                   ingested, named,
                   rec, clock, tally, text, panicked>>

\* channel_manager.rs 134-142, called on a channel found by get_channel(name)
PublishSuspension(n, b) ==
    /\ channels[n] # NoChan
    /\ nsusp' = nsusp + 1
    /\ sent' = [sent EXCEPT ![channels[n]] = Send(channels[n], SuspensionSse(b))]
    /\ sub' = Owed(channels[n])
    /\ UNCHANGED <<channels, nextChan, history, hlock, clients, rate, post, gc,
                   recheck, nlogs, ingested, named,
                   rec, clock, tally, text, panicked>>

\* ----------------------------------------------------------- garbage_collect
\* main.rs 69-70: the task wakes and takes the manager's write lock; the
\* re-checks of the previous sweep (10 s) are over when the next one (60 s) starts
GcStart ==
    /\ gc.pc = "idle"
    /\ recheck = {}
    /\ gc' = [pc |-> "scan", todo |-> {n \in BucketIds : channels[n] # NoChan},
              to_remove |-> {}]
    /\ UNCHANGED <<channels, nextChan, history, hlock, clients, sent, rate, sub, post,
                   recheck, nlogs, nsusp, ingested, named,
                   rec, clock, tally, text, panicked>>

\* channel_manager.rs 208-224: one iteration of the first loop; the spawned
\* task keeps a clone of the channel while it sleeps
GcScan(n) ==
    /\ gc.pc = "scan"
    /\ n \in gc.todo
    /\ IF subscriber_count(channels[n]) = 0
       THEN /\ gc' = [gc EXCEPT !.todo = @ \ {n}, !.to_remove = @ \cup {n}]
            /\ recheck' = recheck \cup {channels[n]}
       ELSE /\ gc' = [gc EXCEPT !.todo = @ \ {n}]
            /\ UNCHANGED recheck
    /\ UNCHANGED <<channels, nextChan, history, hlock, clients, sent, rate, sub, post,
                   nlogs, nsusp, ingested, named,
                   rec, clock, tally, text, panicked>>

\* channel_manager.rs 226-233: one iteration of the second loop
ShouldRemove(n) == subscriber_count(channels[n]) = 0

GcRemove(n) ==
    /\ gc.pc = "scan"
    /\ gc.todo = {}
    /\ n \in gc.to_remove
    /\ channels' = [channels EXCEPT ![n] = IF ShouldRemove(n) THEN NoChan ELSE @]
    /\ gc' = [gc EXCEPT !.to_remove = @ \ {n}]
    /\ UNCHANGED <<nextChan, history, hlock, clients, sent, rate, sub, post, recheck,
                   nlogs, nsusp, ingested, named,
                   rec, clock, tally, text, panicked>>

\* garbage_collect returns, the write lock is released
GcEnd ==
    /\ gc.pc = "scan"
    /\ gc.todo = {}
    /\ gc.to_remove = {}
    /\ gc' = [gc EXCEPT !.pc = "idle"]
    /\ UNCHANGED <<channels, nextChan, history, hlock, clients, sent, rate, sub, post,
                   recheck, nlogs, nsusp, ingested, named,
                   rec, clock, tally, text, panicked>>

\* channel_manager.rs 215-220: the sleep of GC_WAIT_MS is over; the task only
\* logs and drops its clone of the channel
RecheckFire(c) ==
    /\ c \in recheck
    /\ recheck' = recheck \ {c}
    /\ UNCHANGED <<channels, nextChan, history, hlock, clients, sent, rate, sub, post,
                   gc, nlogs, nsusp, ingested, named,
                   rec, clock, tally, text, panicked>>


\* ---------------------------------------------------------------- record_logs
\* record_logs(count) is synchronous code over three atomics; a thread inside
\* it can be overtaken by another between any two atomic operations.
RecRest == <<channels, nextChan, history, hlock, clients, sent, sub, post, gc,
             recheck, nlogs, nsusp, ingested, named, text, panicked>>

Returned(r, value) == [r EXCEPT !.pc = "returned", !.ret = value]

\* mutant: a suspended topic is let through again
RecStartForgiving(k, n, cnt) ==
    /\ rec[k].pc \in {"idle", "returned"}
    /\ channels[n] # NoChan
    /\ rec' = [rec EXCEPT ![k] = [IdleRec EXCEPT !.pc = "clock", !.chan = channels[n],
                                                 !.count = cnt]]
    /\ UNCHANGED <<rate, clock, tally>>
    /\ UNCHANGED RecRest

\* channel_manager.rs 96-99: the call starts on the channel get_channel(n)
\* found; suspended.load(), return false when set
RecStart(k, n, cnt) ==
    /\ rec[k].pc \in {"idle", "returned"}
    /\ channels[n] # NoChan
    /\ rec' = [rec EXCEPT ![k] =
                 IF rate[channels[n]].suspended
                 THEN Returned([IdleRec EXCEPT !.chan = channels[n], !.count = cnt],
                               "false")
                 ELSE [IdleRec EXCEPT !.pc = "clock", !.chan = channels[n],
                                      !.count = cnt]]
    /\ UNCHANGED <<rate, clock, tally>>
    /\ UNCHANGED RecRest

\* channel_manager.rs 101-105: now_minutes = SystemTime::now() in minutes; the
\* call counts towards the minute it read
RecClock(k) ==
    /\ rec[k].pc = "clock"
    /\ rec' = [rec EXCEPT ![k].pc = "load", ![k].now_minutes = clock]
    /\ tally' = [tally EXCEPT ![rec[k].chan][clock] = @ + rec[k].count]
    /\ UNCHANGED <<rate, clock>>
    /\ UNCHANGED RecRest

\* channel_manager.rs 107-109: current_minute_timestamp.load(), the branch
RecLoadMinute(k) ==
    /\ rec[k].pc = "load"
    /\ rec' = [rec EXCEPT ![k].stored_minute = rate[rec[k].chan].minute,
                          ![k].pc = IF rec[k].now_minutes # rate[rec[k].chan].minute
                                    THEN "reset" ELSE "add"]
    /\ UNCHANGED <<rate, clock, tally>>
    /\ UNCHANGED RecRest

\* channel_manager.rs 111-112: current_minute_timestamp.store(now_minutes)
RecStoreMinute(k) ==
    /\ rec[k].pc = "reset"
    /\ rate' = [rate EXCEPT ![rec[k].chan].minute = rec[k].now_minutes]
    /\ rec' = [rec EXCEPT ![k].pc = "store"]
    /\ UNCHANGED <<clock, tally>>
    /\ UNCHANGED RecRest

\* mutant: the count of the previous minute is carried into the new one
ResetCountCarried(old, count) == old + count

\* channel_manager.rs 113-114: log_count_current_minute.store(count)
ResetCount(old, count) == count

\* channel_manager.rs 113-114 and 131: the store, then return true
RecStoreCount(k) ==
    /\ rec[k].pc = "store"
    /\ rate' = [rate EXCEPT ![rec[k].chan].log_count = ResetCount(@, rec[k].count)]
    /\ rec' = [rec EXCEPT ![k] = Returned(@, "true")]
    /\ UNCHANGED <<clock, tally>>
    /\ UNCHANGED RecRest

\* channel_manager.rs 117-121 and 131: fetch_add(count) + count, the comparison
\* with the ceiling, return true when it is not exceeded
RecFetchAdd(k) ==
    /\ rec[k].pc = "add"
    /\ rate' = [rate EXCEPT ![rec[k].chan].log_count = @ + rec[k].count]
    /\ rec' = [rec EXCEPT ![k] =
                 IF rate[rec[k].chan].log_count + rec[k].count > MAX_LOG_LINES_PER_MINUTE
                 THEN [@ EXCEPT !.pc = "suspend",
                                !.new_count = rate[rec[k].chan].log_count + rec[k].count]
                 ELSE Returned([@ EXCEPT !.new_count = rate[rec[k].chan].log_count
                                                       + rec[k].count], "true")]
    /\ UNCHANGED <<clock, tally>>
    /\ UNCHANGED RecRest

\* channel_manager.rs 122-127: suspended.store(true), return false
RecSuspend(k) ==
    /\ rec[k].pc = "suspend"
    /\ rate' = [rate EXCEPT ![rec[k].chan].suspended = TRUE]
    /\ rec' = [rec EXCEPT ![k] = Returned(@, "false")]
    /\ UNCHANGED <<clock, tally>>
    /\ UNCHANGED RecRest

\* the wall clock passes a minute boundary
Tick ==
    /\ clock' = clock + 1
    /\ UNCHANGED <<rate, rec, tally>>
    /\ UNCHANGED RecRest


\* ------------------------------------------------------------ specifications
\* The history after k lines were posted one after the other: every push
\* beyond HISTORY_SIZE entries removed the oldest one, so the newest
\* HISTORY_SIZE are left, oldest first.
Ingested(k) ==
    LET all == [i \in 1..k |-> LogSse(i)]
    IN  IF k > HISTORY_SIZE THEN SubSeq(all, k - HISTORY_SIZE + 1, k) ELSE all

\* A topic that took PreLogs lines while nobody was subscribed: post_events
\* ran to completion PreLogs times (or once with PreLogs lines), every send
\* found no receiver.
InitHist ==
    /\ Quiet
    /\ channels = [n \in BucketIds |-> IF n = PlainId THEN 1 ELSE NoChan]
    /\ nextChan = 2
    /\ history = [c \in Chans |-> IF c = 1 THEN Ingested(PreLogs) ELSE <<>>]
    /\ hlock = [c \in Chans |-> 0]
    /\ clients = [c \in Chans |-> {}]
    /\ sent = [c \in Chans |-> <<>>]
    /\ rate = [c \in Chans |-> ChannelNewRate]
    /\ sub = [s \in Subs |-> IdleSub]
    /\ post = [p \in Posters |-> IdlePost]
    /\ gc = [pc |-> "idle", todo |-> {}, to_remove |-> {}]
    /\ recheck = {}
    /\ nlogs = PreLogs
    /\ nsusp = 0
    /\ ingested = [c \in Chans |-> IF c = 1 THEN [i \in 1..PreLogs |-> LogSse(i)]
                                             ELSE <<>>]
    /\ named = [c \in Chans |-> IF c = 1 THEN PlainId ELSE <<>>]

\* One topic under load: two producers, the stream requests and direct
\* publish_suspension calls on a single bucket, more lines than the history holds.
NextHist ==
    \/ \E s \in HistSubs : GetChan(s, PlainId)
    \/ \E s \in HistSubs : Admit(s)
    \/ \E s \in HistSubs : CancelBeforeInsert(s)
    \/ \E s \in HistSubs : SubInsert(s)
    \/ \E s \in HistSubs : SubRecv(s)
    \/ \E s \in HistSubs : SubSnap(s)
    \/ \E s \in HistSubs : CancelInSubscribe(s)
    \/ \E s \in HistSubs : StatsPublish(s)
    \/ \E s \in HistSubs : PollReplay(s)
    \/ \E s \in HistSubs : PollLive(s)
    \/ \E s \in HistSubs : CancelStream(s)
    \/ \E s \in HistSubs : ReleaseTask(s)
    \/ \E p \in Posters, k \in 1..MaxLines :
          nlogs + k <= PreLogs + MaxLogs /\ PostGet(p, PlainId, k)
    \/ \E p \in Posters : PubPush(p)
    \/ \E p \in Posters : PubTrim(p)
    \/ \E p \in Posters : PubSend(p)
    \/ \E b \in BOOLEAN : nsusp < MaxSuspensions /\ PublishSuspension(PlainId, b)

SpecHist == InitHist /\ [][NextHist]_vars

\* Two producers post to a fresh topic that one stream request subscribes to
\* and reads.
NextOrd ==
    \/ \E s \in HistSubs : GetChan(s, PlainId)
    \/ \E s \in HistSubs : Admit(s)
    \/ \E s \in HistSubs : SubInsert(s)
    \/ \E s \in HistSubs : SubRecv(s)
    \/ \E s \in HistSubs : SubSnap(s)
    \/ \E s \in HistSubs : StatsPublish(s)
    \/ \E s \in HistSubs : PollReplay(s)
    \/ \E s \in HistSubs : PollLive(s)
    \/ \E p \in Posters, k \in 1..MaxLines :
          nlogs + k <= MaxOrdLogs /\ PostGet(p, PlainId, k)
    \/ \E p \in Posters : PubPush(p)
    \/ \E p \in Posters : PubTrim(p)
    \/ \E p \in Posters : PubSend(p)

SpecOrd == Init /\ [][NextOrd]_vars

\* The same scenario with the runtime polling every handler's future (a
\* publish_log or get_bucket that can take its next step takes it) and a
\* consumer that keeps pulling its stream for as long as it has not gone away.
SpecGap ==
    /\ InitHist
    /\ [][NextHist]_vars
    /\ \A p \in Posters :
          WF_vars(PubPush(p)) /\ WF_vars(PubTrim(p)) /\ WF_vars(PubSend(p))
    /\ \A s \in HistSubs :
          WF_vars(StatsPublish(s)) /\ WF_vars(PollReplay(s)) /\ WF_vars(PollLive(s))

\* The registry under load: stream requests and posts on two bucket ids (one
\* of them capped at a single subscriber) against the garbage collection task.
NextReg ==
    \/ \E s \in RegSubs, n \in BucketIds : GetChan(s, n)
    \/ \E s \in RegSubs : Admit(s)
    \/ \E s \in RegSubs : CancelBeforeInsert(s)
    \/ \E s \in RegSubs : SubInsert(s)
    \/ \E s \in RegSubs : SubRecv(s)
    \/ \E s \in RegSubs : SubSnap(s)
    \/ \E s \in RegSubs : CancelInSubscribe(s)
    \/ \E s \in RegSubs : StatsPublish(s)
    \/ \E s \in RegSubs : PollReplay(s)
    \/ \E s \in RegSubs : PollLive(s)
    \/ \E s \in RegSubs : PollClosed(s)
    \/ \E s \in RegSubs : CancelStream(s)
    \/ \E s \in RegSubs : ReleaseTask(s)
    \/ \E n \in BucketIds, k \in 1..MaxLines :
          nlogs + k <= MaxRegLogs /\ PostGet(1, n, k)
    \/ PubPush(1)
    \/ PubTrim(1)
    \/ PubSend(1)
    \/ GcStart
    \/ \E n \in BucketIds : GcScan(n)
    \/ \E n \in BucketIds : GcRemove(n)
    \/ GcEnd
    \/ \E c \in Chans : RecheckFire(c)

SpecReg == Init /\ [][NextReg]_vars

\* Request 1 subscribed to the fresh topic (its own stats event was sent to it),
\* then PreLag lines were posted and its consumer has pulled nothing yet.
InitLag ==
    /\ Quiet
    /\ channels = [n \in BucketIds |-> IF n = PlainId THEN 1 ELSE NoChan]
    /\ nextChan = 2
    /\ history = [c \in Chans |-> IF c = 1 THEN Ingested(PreLag) ELSE <<>>]
    /\ hlock = [c \in Chans |-> 0]
    /\ clients = [c \in Chans |-> IF c = 1 THEN {1} ELSE {}]
    /\ sent = [c \in Chans |->
                 IF c = 1
                 THEN <<StatsSse(1, 1)>> \o [i \in 1..PreLag |-> LogSse(i)]
                 ELSE <<>>]
    /\ rate = [c \in Chans |-> ChannelNewRate]
    /\ sub = [s \in Subs |->
                 IF s = 1
                 THEN [IdleSub EXCEPT !.pc = "stream", !.id = PlainId, !.chan = 1,
                                      !.rx = TRUE, !.guard = "held",
                                      !.due = 1 + PreLag]
                 ELSE IdleSub]
    /\ post = [p \in Posters |-> IdlePost]
    /\ gc = [pc |-> "idle", todo |-> {}, to_remove |-> {}]
    /\ recheck = {}
    /\ nlogs = PreLag
    /\ nsusp = 0
    /\ ingested = [c \in Chans |-> IF c = 1 THEN [i \in 1..PreLag |-> LogSse(i)]
                                             ELSE <<>>]
    /\ named = [c \in Chans |-> IF c = 1 THEN PlainId ELSE <<>>]

\* The topic took PreLag lines while nobody was subscribed and was then removed
\* by the garbage collection task; its delayed re-check is over.
InitEvicted ==
    /\ Quiet
    /\ channels = [n \in BucketIds |-> NoChan]
    /\ nextChan = 2
    /\ history = [c \in Chans |-> IF c = 1 THEN Ingested(PreLag) ELSE <<>>]
    /\ hlock = [c \in Chans |-> 0]
    /\ clients = [c \in Chans |-> {}]
    /\ sent = [c \in Chans |-> <<>>]
    /\ rate = [c \in Chans |-> ChannelNewRate]
    /\ sub = [s \in Subs |-> IdleSub]
    /\ post = [p \in Posters |-> IdlePost]
    /\ gc = [pc |-> "idle", todo |-> {}, to_remove |-> {}]
    /\ recheck = {}
    /\ nlogs = PreLag
    /\ nsusp = 0
    /\ ingested = [c \in Chans |-> IF c = 1 THEN [i \in 1..PreLag |-> LogSse(i)]
                                             ELSE <<>>]
    /\ named = [c \in Chans |-> IF c = 1 THEN PlainId ELSE <<>>]

\* A slow consumer: one producer keeps posting to the topic of request 1 while
\* further requests come and go and the garbage collection task runs.
NextLife ==
    \/ \E s \in LifeSubs : GetChan(s, PlainId)
    \/ \E s \in LifeSubs : Admit(s)
    \/ \E s \in LifeSubs : CancelBeforeInsert(s)
    \/ \E s \in LifeSubs : SubInsert(s)
    \/ \E s \in LifeSubs : SubRecv(s)
    \/ \E s \in LifeSubs : SubSnap(s)
    \/ \E s \in LifeSubs : CancelInSubscribe(s)
    \/ \E s \in LifeSubs : StatsPublish(s)
    \/ \E s \in LifeSubs : PollReplay(s)
    \/ \E s \in LifeSubs : PollLive(s)
    \/ \E s \in LifeSubs : PollLagged(s)
    \/ \E s \in LifeSubs : PollClosed(s)
    \/ \E s \in LifeSubs : CancelStream(s)
    \/ \E s \in LifeSubs : ReleaseTask(s)
    \/ \E k \in 1..MaxLines :
          nlogs + k <= PreLag + MaxLagLogs /\ PostGet(1, PlainId, k)
    \/ PubPush(1)
    \/ PubTrim(1)
    \/ PubSend(1)
    \/ GcStart
    \/ \E n \in BucketIds : GcScan(n)
    \/ \E n \in BucketIds : GcRemove(n)
    \/ GcEnd
    \/ \E c \in Chans : RecheckFire(c)

\* The runtime runs every spawned task: the removal task of a dropped guard
\* is eventually executed.
SpecLife == (InitLag \/ InitEvicted) /\ [][NextLife]_vars /\ \A s \in Subs : WF_vars(ReleaseTask(s))

\* Request 1 subscribed to the fresh topic and has pulled nothing since; PreLag
\* further stream requests came and went, each broadcasting its stats event
\* (two identities, two receivers at that moment) before its stream was
\* dropped and its identity removed.  No line has been posted yet.
InitFan ==
    /\ Quiet
    /\ channels = [n \in BucketIds |-> IF n = PlainId THEN 1 ELSE NoChan]
    /\ nextChan = 2
    /\ history = [c \in Chans |-> <<>>]
    /\ hlock = [c \in Chans |-> 0]
    /\ clients = [c \in Chans |-> IF c = 1 THEN {1} ELSE {}]
    /\ sent = [c \in Chans |->
                 IF c = 1
                 THEN <<StatsSse(1, 1)>> \o [i \in 1..PreLag |-> StatsSse(2, 2)]
                 ELSE <<>>]
    /\ rate = [c \in Chans |-> ChannelNewRate]
    /\ sub = [s \in Subs |->
                 IF s = 1
                 THEN [IdleSub EXCEPT !.pc = "stream", !.id = PlainId, !.chan = 1,
                                      !.rx = TRUE, !.guard = "held",
                                      !.due = 1 + PreLag]
                 ELSE IdleSub]
    /\ post = [p \in Posters |-> IdlePost]
    /\ gc = [pc |-> "idle", todo |-> {}, to_remove |-> {}]
    /\ recheck = {}
    /\ nlogs = 0
    /\ nsusp = 0
    /\ ingested = [c \in Chans |-> <<>>]
    /\ named = [c \in Chans |-> IF c = 1 THEN PlainId ELSE <<>>]

\* Fan-out next to a consumer that never pulls: request 1 holds a feed it
\* does not read (it can only go away, or be cut off once it lags), request 2
\* subscribes and keeps reading, one producer posts, suspensions are published.
NextFan ==
    \/ \E s \in FanFast : GetChan(s, PlainId)
    \/ \E s \in FanFast : Admit(s)
    \/ \E s \in FanFast : SubInsert(s)
    \/ \E s \in FanFast : SubRecv(s)
    \/ \E s \in FanFast : SubSnap(s)
    \/ \E s \in FanFast : StatsPublish(s)
    \/ \E s \in FanFast : PollReplay(s)
    \/ \E s \in FanFast : PollLive(s)
    \/ \E s \in FanSlow : PollLagged(s)
    \/ \E s \in FanSlow : CancelStream(s)
    \/ \E s \in FanSlow : ReleaseTask(s)
    \/ \E k \in 1..MaxLines :
          nlogs + k <= MaxFanLogs /\ PostGet(1, PlainId, k)
    \/ PubPush(1)
    \/ PubTrim(1)
    \/ PubSend(1)
    \/ nsusp < MaxSuspensions /\ PublishSuspension(PlainId, TRUE)

\* The runtime keeps polling a handler's future: a post_events or get_bucket
\* request that can take its next step takes it.  Nothing is assumed about
\* the consumers of the streams.
SpecFan ==
    /\ InitFan
    /\ [][NextFan]_vars
    /\ WF_vars(PubPush(1)) /\ WF_vars(PubTrim(1)) /\ WF_vars(PubSend(1))
    /\ \A s \in FanFast : WF_vars(StatsPublish(s))

\* The rate controller driven by one caller at a time (each record_logs call
\* returns before the next starts) while the clock advances and a producer
\* posts lines to the same topic.
NextRate ==
    \/ \E k \in RateSeq, cnt \in 1..MaxCount : RecStart(k, PlainId, cnt)
    \/ \E k \in RateSeq : RecClock(k)
    \/ \E k \in RateSeq : RecLoadMinute(k)
    \/ \E k \in RateSeq : RecStoreMinute(k)
    \/ \E k \in RateSeq : RecStoreCount(k)
    \/ \E k \in RateSeq : RecFetchAdd(k)
    \/ \E k \in RateSeq : RecSuspend(k)
    \/ clock < StartMinute + MaxTicks /\ Tick
    \/ \E k \in 1..MaxLines :
          nlogs + k <= MaxRateLogs /\ PostGet(1, PlainId, k)
    \/ PubPush(1)
    \/ PubTrim(1)
    \/ PubSend(1)

SpecRate == Init /\ [][NextRate]_vars

\* The rate controller of an existing topic called from two threads at once
\* while the clock advances.
NextRace ==
    \/ \E k \in Callers, cnt \in RaceCounts : RecStart(k, PlainId, cnt)
    \/ \E k \in Callers : RecClock(k)
    \/ \E k \in Callers : RecLoadMinute(k)
    \/ \E k \in Callers : RecStoreMinute(k)
    \/ \E k \in Callers : RecStoreCount(k)
    \/ \E k \in Callers : RecFetchAdd(k)
    \/ \E k \in Callers : RecSuspend(k)
    \/ clock < StartMinute + MaxTicks /\ Tick

SpecRace == InitHist /\ [][NextRace]_vars

\* Admission: two stream requests on the two bucket ids (one capped at a
\* single subscriber), their streams read and dropped.
NextAdm ==
    \/ \E s \in Subs, n \in BucketIds : GetChan(s, n)
    \/ \E s \in Subs : Reject(s)
    \/ \E s \in Subs : Admit(s)
    \/ \E s \in Subs : SubInsert(s)
    \/ \E s \in Subs : SubRecv(s)
    \/ \E s \in Subs : SubSnap(s)
    \/ \E s \in Subs : StatsPublish(s)
    \/ \E s \in Subs : PollLive(s)
    \/ \E s \in Subs : CancelStream(s)
    \/ \E s \in Subs : ReleaseTask(s)

SpecAdm == Init /\ [][NextAdm]_vars

\* One post_events request with any body of up to MaxBodyLen characters.
NextParse ==
    \/ \E body \in Bodies : nlogs = 0 /\ panicked = {} /\ PostBody(1, PlainId, body)
    \/ PubPush(1)
    \/ PubTrim(1)
    \/ PubSend(1)
    \/ PostPanic(1)

SpecParse == Init /\ [][NextParse]_vars

\* -------------------------------------------------------------------- claims
LastN(q, n) == SubSeq(q, IF Len(q) > n THEN Len(q) - n + 1 ELSE 1, Len(q))
Allocated(c) == c < nextChan
HasSnapshot(s) == sub[s].pc \in {"subscribed", "stream", "ended"}

\* C1: whatever publish_log, publish_stats, publish_suspension and subscribe
\* calls have run and however they interleaved, a history that can be read
\* (no publish_log is inside its write section) holds at most HISTORY_SIZE events.
C1_HistoryBounded ==
    \A c \in Chans : hlock[c] = 0 => Len(history[c]) <= HISTORY_SIZE

\* C1 witness: more than HISTORY_SIZE lines were ingested, the oldest was
\* trimmed away, a suspension was published and a subscription is streaming.
C1_Witness ==
    \E c \in Chans, s \in Subs :
        /\ hlock[c] = 0
        /\ Len(ingested[c]) > HISTORY_SIZE
        /\ Len(history[c]) = HISTORY_SIZE
        /\ nsusp > 0
        /\ sub[s].pc = "stream" /\ sub[s].chan = c

\* C2: the snapshot a subscription replays is the last HISTORY_SIZE log events
\* ingested before the snapshot was taken (all of them when there are fewer),
\* in ingestion order, and the replay phase yields that snapshot in order.
C2_ReplayIsLastTen ==
    \A s \in Subs :
        HasSnapshot(s) =>
            /\ sub[s].snapshot =
                  LastN(SubSeq(ingested[sub[s].chan], 1, sub[s].snapAt), HISTORY_SIZE)
            /\ sub[s].idx <= Len(sub[s].snapshot)
            /\ SubSeq(sub[s].out, 1, sub[s].idx) = SubSeq(sub[s].snapshot, 1, sub[s].idx)

\* C2 witness: a subscription taken after HISTORY_SIZE + 1 ingestions has
\* replayed HISTORY_SIZE events, the first ingested line not among them.
C2_Witness ==
    \E s \in Subs :
        /\ sub[s].pc = "stream"
        /\ sub[s].snapAt > HISTORY_SIZE
        /\ sub[s].idx = HISTORY_SIZE
        /\ Len(sub[s].out) >= HISTORY_SIZE
        /\ LogSse(1) \notin Range(sub[s].out)
        /\ sub[s].out[HISTORY_SIZE] = ingested[sub[s].chan][sub[s].snapAt]

\* C9: every event of every history is a log event, and so is every event a
\* subscription yields in its replay phase.
C9_OnlyLogsInHistory ==
    /\ \A c \in Chans : \A i \in 1..Len(history[c]) : history[c][i].event_type = "log"
    /\ \A s \in Subs : \A i \in 1..sub[s].idx : sub[s].out[i].event_type = "log"

\* C9 witness: a stats and a suspension event were broadcast on a topic whose
\* history is then replayed in full by a subscription.
C9_Witness ==
    \E s \in Subs :
        /\ sub[s].pc = "stream"
        /\ sub[s].idx = Len(sub[s].snapshot) /\ sub[s].idx > 0
        /\ \E i \in 1..Len(sent[sub[s].chan]) :
              sent[sub[s].chan][i].event_type = "suspension"
        /\ \E i \in 1..Len(sent[sub[s].chan]) :
              sent[sub[s].chan][i].event_type = "stats"

\* the identity of request s is in the subscriber set of its topic
Member(s) == sub[s].chan # NoChan /\ s \in clients[sub[s].chan]

\* subscribe() has returned and the stream has not been dropped
Alive(s) == sub[s].pc \in {"subscribed", "stream"}

\* C3: a subscriber identity is in its topic's subscriber set from the return
\* of subscribe() for as long as the subscription is alive, and once the
\* subscription has ended it eventually leaves the set.
C3_MemberWhileAlive ==
    /\ [](\A s \in Subs : Alive(s) => Member(s))
    /\ \A s \in Subs : (sub[s].pc = "ended") ~> ~Member(s)

\* C3 witness: a subscription that yielded events ended because its feed
\* closed, and its identity has been removed.
C3_Witness ==
    \E s \in Subs :
        /\ sub[s].pc = "ended" /\ sub[s].end = "closed"
        /\ Len(sub[s].out) > 0
        /\ sub[s].guard = "removed"
        /\ ~Member(s)

\* C4: whenever a request that registered an identity has exited (the stream
\* ended or was dropped, or the request was dropped inside subscribe()), the
\* identity is already out of the set or its one release is pending.
C4_ReleasedOnEveryExit ==
    \A s \in Subs :
        (sub[s].pc \in {"ended", "cancelled"} /\ Member(s))
            => sub[s].guard = "spawned"

\* C5: a topic the sweep saw idle is not removed from the index while the
\* delayed re-check of that sweep is still waiting (the debounce interval).
C5_NoEvictionDuringDebounce ==
    \A c \in recheck : Indexed(c)

\* a step of request s other than the bookkeeping of what it is owed
Pulled(s) == [sub[s] EXCEPT !.due = 0] # [sub'[s] EXCEPT !.due = 0]

\* C6: on a topic that is no longer indexed, every send still reaches each
\* live receiver, a subscription has yielded exactly its snapshot prefix
\* followed by what was broadcast to it, publish_log still appends to the
\* history; and the eviction step changes no history, subscriber set or feed.
C6_StaleHandleStillWorks ==
    /\ [](\A s \in Subs :
            (sub[s].rx /\ ~Indexed(sub[s].chan)) =>
                /\ Len(sent[sub[s].chan]) = sub[s].start + sub[s].due
                /\ sub[s].out = SubSeq(sub[s].snapshot, 1, sub[s].idx)
                                \o SubSeq(sent[sub[s].chan], sub[s].start + 1, sub[s].next))
    /\ [](\A p \in Posters :
            (post[p].pc = "written" /\ ~Indexed(post[p].chan)) =>
                CurrentEvent(p) \in Range(history[post[p].chan]))
    /\ [][\A n \in BucketIds :
            (channels[n] # NoChan /\ channels'[n] = NoChan) =>
                /\ history' = history /\ clients' = clients
                /\ sent' = sent /\ sub' = sub /\ rate' = rate]_vars

\* C6 witness: a subscription on a topic that is no longer indexed has
\* received, live, a log event published through an older handle.
C6_Witness ==
    \E s \in Subs :
        /\ sub[s].pc = "stream" /\ sub[s].rx
        /\ ~Indexed(sub[s].chan)
        /\ \E i \in (sub[s].idx + 1)..Len(sub[s].out) :
              /\ sub[s].out[i].event_type = "log"
              /\ sub[s].out[i] \in Range(history[sub[s].chan])

\* C7: the object a vacant name receives is new: empty history, empty
\* subscriber set, empty feed, rate state Active with zero count; and what a
\* subscription replays was ingested into its own topic object.
C7_FreshAfterEviction ==
    /\ [][\A n \in BucketIds :
            (channels[n] = NoChan /\ channels'[n] # NoChan) =>
                /\ ~Allocated(channels'[n])
                /\ history'[channels'[n]] = <<>>
                /\ clients'[channels'[n]] = {}
                /\ sent'[channels'[n]] = <<>>
                /\ rate'[channels'[n]] = ChannelNewRate]_vars
    /\ [](\A s \in Subs :
            HasSnapshot(s) =>
                Range(sub[s].snapshot) \subseteq Range(ingested[sub[s].chan]))

\* C7 witness: a topic with a non-empty history was evicted, its name got a
\* new object, and a subscription to it took an empty snapshot.
C7_Witness ==
    \E s \in Subs, c \in Chans :
        /\ sub[s].pc = "stream"
        /\ c < sub[s].chan /\ named[c] = sub[s].id /\ ~Indexed(c)
        /\ history[c] # <<>>
        /\ channels[sub[s].id] = sub[s].chan
        /\ sub[s].snapshot = <<>>

\* what get_or_create_channel(n) returning c must have done in this step
GetOrCreateOk(n, c) ==
    IF channels[n] # NoChan
    THEN /\ c = channels[n]
         /\ channels' = channels
         /\ history' = history /\ clients' = clients /\ sent' = sent
    ELSE /\ ~Allocated(c) /\ ~Indexed(c)
         /\ channels' = [channels EXCEPT ![n] = c]
         /\ history'[c] = <<>> /\ clients'[c] = {} /\ sent'[c] = <<>>

\* C8: a call for an indexed name returns the indexed object and changes
\* nothing in the registry; a call for a vacant name inserts one new, empty
\* object and leaves the other entries alone; no object is indexed twice.
C8_GetOrCreateIdempotent ==
    /\ [](\A n, m \in BucketIds :
            (n # m /\ channels[n] # NoChan) => channels[n] # channels[m])
    /\ [][\A s \in Subs :
            (sub[s].pc = "idle" /\ sub'[s].pc = "got") =>
                GetOrCreateOk(sub'[s].id, sub'[s].chan)]_vars
    /\ [][\A p \in Posters :
            (post[p].pc = "idle" /\ post'[p].pc = "loop") =>
                GetOrCreateOk(post'[p].id, post'[p].chan)]_vars

\* C8 witness: both names are indexed, and a stream request and a post
\* request hold the same object for the same name.
C8_Witness ==
    \E s \in Subs, p \in Posters :
        /\ sub[s].pc = "got" /\ post[p].pc = "loop"
        /\ sub[s].id = post[p].id
        /\ sub[s].chan = post[p].chan
        /\ channels[sub[s].id] = sub[s].chan
        /\ \A n \in BucketIds : channels[n] # NoChan

\* C10: a live-phase pull of a subscription that is more than
\* CHANNEL_CAPACITY events behind ends it: nothing more is yielded, the
\* receiver is gone and the release is spawned; an ended subscription yields
\* nothing; and the identity of a subscription ended by lag leaves the set.
C10_LagEndsSubscription ==
    /\ [][\A s \in Subs :
            (sub[s].pc = "stream" /\ ~InReplay(s) /\ Lagging(s) /\ Pulled(s)) =>
                /\ sub'[s].pc = "ended"
                /\ sub'[s].out = sub[s].out
                /\ ~sub'[s].rx
                /\ sub'[s].guard = "spawned"]_vars
    /\ [][\A s \in Subs :
            sub[s].pc = "ended" =>
                (sub'[s].pc = "ended" /\ sub'[s].out = sub[s].out)]_vars
    /\ \A s \in Subs : (sub[s].end = "lagged") ~> ~Member(s)

\* C10 witness: a subscription more than CHANNEL_CAPACITY events behind was
\* ended by its pull, and its identity has been removed.
C10_Witness ==
    \E s \in Subs :
        /\ sub[s].pc = "ended" /\ sub[s].end = "lagged"
        /\ Len(sent[sub[s].chan]) - sub[s].next > CHANNEL_CAPACITY
        /\ sub[s].guard = "removed"
        /\ ~Member(s)

\* C11: every post_events request that started publishing returns and every
\* publish_stats call completes, whatever the consumers do (no fairness is
\* assumed of them); publish_suspension can always be taken on an indexed
\* topic; every send is queued for each live receiver; and a streaming
\* subscription has yielded exactly what was broadcast to it up to its
\* position, also while another one lags.
C11_IngestionNeverWaits ==
    /\ \A p \in Posters : (post[p].pc # "idle") ~> (post[p].pc = "idle")
    /\ \A s \in Subs : (sub[s].pc = "subscribed") ~> (sub[s].pc = "stream")
    /\ [](\A n \in BucketIds, b \in BOOLEAN :
            channels[n] # NoChan => ENABLED PublishSuspension(n, b))
    /\ [](\A s \in Subs :
            sub[s].rx =>
                /\ Len(sent[sub[s].chan]) = sub[s].start + sub[s].due
                /\ sub[s].out = SubSeq(sub[s].snapshot, 1, sub[s].idx)
                                \o SubSeq(sent[sub[s].chan], sub[s].start + 1, sub[s].next))

\* C11 witness: a post has completed while request 1, which never pulled, is
\* more than CHANNEL_CAPACITY behind and still holds its feed, and request 2
\* has received the posted log event live and is up to date.
C11_Witness ==
    \E s \in FanSlow, t \in FanFast :
        /\ sub[s].rx /\ sub[s].next = 0 /\ Lagging(s)
        /\ sub[t].pc = "stream" /\ sub[t].chan = sub[s].chan
        /\ sub[t].next = Len(sent[sub[t].chan])
        /\ Len(sub[t].out) > sub[t].idx
        /\ sub[t].out[Len(sub[t].out)].event_type = "log"
        /\ sub[t].idx > 0
        /\ post[1].pc = "idle" /\ nlogs > 0

\* the call of k has returned after reading the clock (the topic was Active
\* when it started)
Counted(k) == rec[k].pc = "returned" /\ rec[k].now_minutes # 0

\* C12: a record_logs call that started on an Active topic returns true and
\* leaves the topic Active while the counts of the calls of its minute (its
\* own included) sum to at most the ceiling, and returns false and leaves the
\* topic Suspended once that sum exceeds the ceiling.
C12_RateThreshold ==
    \A k \in RateSeq :
        Counted(k) =>
            IF tally[rec[k].chan][rec[k].now_minutes] <= MAX_LOG_LINES_PER_MINUTE
            THEN rec[k].ret = "true" /\ ~rate[rec[k].chan].suspended
            ELSE rec[k].ret = "false" /\ rate[rec[k].chan].suspended

\* C18: whenever the count a record_logs call has just stored (incremented, or
\* reset to its argument at the start of a new minute) exceeds the ceiling,
\* the call has returned false and the topic is Suspended.
C18_OverflowSuspends ==
    \A k \in RateSeq :
        (Counted(k) /\ rate[rec[k].chan].log_count > MAX_LOG_LINES_PER_MINUTE) =>
            (rec[k].ret = "false" /\ rate[rec[k].chan].suspended)

\* C13: the suspended flag of a topic is false until a record_logs call whose
\* increment exceeded the ceiling sets it, it is never cleared, and a call
\* that starts on a Suspended topic returns false at once and leaves the
\* stored minute and the stored count as they are.
C13_SuspensionSticky ==
    /\ [](\A c \in Chans : ~Allocated(c) => ~rate[c].suspended)
    /\ [][\A c \in Chans : rate[c].suspended => rate'[c].suspended]_vars
    /\ [][\A c \in Chans :
            (~rate[c].suspended /\ rate'[c].suspended) =>
                \E k \in Callers :
                    /\ rec[k].pc = "suspend" /\ rec[k].chan = c
                    /\ rec[k].new_count > MAX_LOG_LINES_PER_MINUTE
                    /\ rec'[k].pc = "returned"]_vars
    /\ [][\A k \in Callers :
            (/\ rec[k].pc \in {"idle", "returned"}
             /\ rec'[k] # rec[k]
             /\ rate[rec'[k].chan].suspended) =>
                /\ rec'[k].pc = "returned" /\ rec'[k].ret = "false"
                /\ rate' = rate]_vars

\* C13 witness: a call made in a later minute than the one in which the topic
\* was suspended has returned false without reading the clock.
C13_Witness ==
    \E k \in RateSeq :
        /\ rec[k].pc = "returned" /\ rec[k].ret = "false"
        /\ rec[k].now_minutes = 0
        /\ rate[rec[k].chan].suspended
        /\ clock > rate[rec[k].chan].minute
        /\ rate[rec[k].chan].log_count > MAX_LOG_LINES_PER_MINUTE

\* C14: as long as no minute has received more than the ceiling, every call
\* has returned true and the topic is Active, whatever the earlier minutes
\* received; and a call that found a new minute has stored that minute and
\* exactly its own count.
C14_MinuteBoundary ==
    \A k \in RateSeq :
        Counted(k) =>
            /\ (\A m \in Minutes : tally[rec[k].chan][m] <= MAX_LOG_LINES_PER_MINUTE)
                  => (rec[k].ret = "true" /\ ~rate[rec[k].chan].suspended)
            /\ rec[k].now_minutes # rec[k].stored_minute
                  => /\ rate[rec[k].chan].minute = rec[k].now_minutes
                     /\ rate[rec[k].chan].log_count = rec[k].count

\* C14 witness: ceiling-many ingestions in one minute and ceiling-many more in
\* the next, in several calls, all accepted; the topic is Active.
C14_Witness ==
    \E k \in RateSeq, m \in Minutes :
        /\ Counted(k) /\ rec[k].ret = "true"
        /\ rec[k].now_minutes = m + 1 /\ rec[k].stored_minute = m + 1
        /\ tally[rec[k].chan][m] = MAX_LOG_LINES_PER_MINUTE
        /\ tally[rec[k].chan][m + 1] = MAX_LOG_LINES_PER_MINUTE
        /\ rate[rec[k].chan].log_count = MAX_LOG_LINES_PER_MINUTE
        /\ ~rate[rec[k].chan].suspended

\* C17: no step of a post_events request changes or depends on a topic's rate
\* state: the stored minute, the stored count and the suspended flag change
\* only in steps of record_logs calls, a line is pushed and sent whether the
\* topic is Suspended or not, and once the requests have returned every
\* submitted line has been published.
C17_IngestionIgnoresRate ==
    /\ [][(post' # post) => (rate' = rate)]_vars
    /\ [][(rate' # rate) => (rec' # rec)]_vars
    /\ [](\A p \in Posters :
            post[p].pc = "written" =>
                CurrentEvent(p) \in Range(history[post[p].chan]))
    /\ []((\A p \in Posters : post[p].pc = "idle") =>
            \A n \in BucketIds :
                channels[n] # NoChan => Len(ingested[channels[n]]) = nlogs)

\* C17 witness: the topic is Suspended, a record_logs call on it has been
\* turned away, and the posts have published all their lines on it and returned.
C17_Witness ==
    \E c \in Chans :
        /\ rate[c].suspended
        /\ \A p \in Posters : post[p].pc = "idle"
        /\ nlogs = MaxRateLogs
        /\ Len(ingested[c]) = nlogs
        /\ \E i \in 1..Len(history[c]) : history[c][i] = LogSse(nlogs)
        /\ \E k \in RateSeq : rec[k].pc = "returned" /\ rec[k].ret = "false"
                              /\ rec[k].now_minutes = 0

\* C19: whenever no record_logs call is in progress on a topic, its stored
\* count equals the sum of the counts of the calls that read the stored
\* minute, and the topic is Suspended exactly when some minute's sum exceeds
\* the ceiling.
C19_CountIsSum ==
    \A c \in Chans :
        (\A k \in Callers : ~(RecHoldsHandle(k) /\ rec[k].chan = c)) =>
            /\ rate[c].minute # 0 => rate[c].log_count = tally[c][rate[c].minute]
            /\ rate[c].suspended <=>
                  \E m \in Minutes : tally[c][m] > MAX_LOG_LINES_PER_MINUTE

\* the maximum the claim gives for a bucket id
EffectiveMax(id) == IF id = CappedId THEN 1 ELSE 30

\* C15: a stream request goes on to subscribe() only if, at its check, the
\* topic's receiver count is below the effective maximum (30, or the number
\* after ";max-subs="), and is rejected otherwise; a rejected request has no
\* identity in the subscriber set and no receiver, and only requests that
\* passed the check ever have one.
C15_AdmissionBeforeSubscribe ==
    /\ [][\A s \in Subs :
            (sub[s].pc = "got" /\ sub'[s].pc # "got") =>
                IF subscriber_count(sub[s].chan) < EffectiveMax(sub[s].id)
                THEN sub'[s].pc = "admitted"
                ELSE sub'[s].pc = "rejected"]_vars
    /\ [](\A s \in Subs :
            sub[s].pc = "rejected" =>
                (~sub[s].rx /\ ~Member(s) /\ sub[s].guard = "none"))
    /\ [](\A s \in Subs :
            (sub[s].rx \/ Member(s)) => sub[s].pc \notin {"idle", "got", "rejected"})
    /\ [][\A s \in Subs : sub[s].pc = "rejected" => sub'[s] = sub[s]]_vars

\* C15 witness: on the topic capped at one subscriber, one request is
\* streaming and the other has been rejected.
C15_Witness ==
    \E s, t \in Subs :
        /\ sub[s].pc = "rejected" /\ sub[s].id = CappedId
        /\ sub[t].pc = "stream" /\ sub[t].rx /\ sub[t].chan = sub[s].chan
        /\ clients[sub[s].chan] = {t}

\* the history as it stood once the k-th push and its trim were both done
Committed(c, k) == LastN(SubSeq(ingested[c], 1, k), HISTORY_SIZE)

\* C20: a subscription captures its snapshot only while no publish_log is
\* between its append and its trim; the snapshot is the history as it is at
\* that moment, holds at most HISTORY_SIZE events, and equals the history as
\* it stood after some whole number of publications made before the capture.
C20_SnapshotAtomic ==
    /\ [][\A s \in Subs :
            (sub[s].pc = "recvd" /\ sub'[s].pc = "subscribed") =>
                /\ hlock[sub[s].chan] = 0
                /\ sub'[s].snapshot = history[sub[s].chan]
                /\ \A p \in Posters : post[p].pc # "pushed"]_vars
    /\ [](\A s \in Subs :
            HasSnapshot(s) =>
                /\ Len(sub[s].snapshot) <= HISTORY_SIZE
                /\ \E k \in 0..sub[s].snapAt :
                      sub[s].snapshot = Committed(sub[s].chan, k))

\* C20 witness: a snapshot was captured in the middle of a publish_log call
\* (after its trim, before its send) that took the history past HISTORY_SIZE
\* pushes; it holds HISTORY_SIZE events, the pushed one last.
C20_Witness ==
    \E s \in Subs, p \in Posters :
        /\ sub[s].pc = "subscribed"
        /\ post[p].pc = "written" /\ post[p].chan = sub[s].chan
        /\ sub[s].snapAt > HISTORY_SIZE
        /\ Len(sub[s].snapshot) = HISTORY_SIZE
        /\ sub[s].snapshot[HISTORY_SIZE] = CurrentEvent(p)

\* a line that is no JSON object, no structured header, and has no '='
NoKnownFormat(line) ==
    /\ ~parse_json(line).some
    /\ ~SfvDictionary(line).ok
    /\ ~(SfvItem(line).ok /\ SfvItem(line).params # <<>>)
    /\ Find(line, "=") = 0

\* C16: parse() never fails on a line; once the request has returned, exactly
\* one log event per non-empty line of the body has been published, in the
\* order of the body; and the event of a line in no known format carries no
\* parser label and no fields.
C16_ParseFailsOpen ==
    /\ panicked = {}
    /\ \A c \in Chans :
          (Allocated(c) /\ \A p \in Posters : post[p].pc = "idle") =>
              ingested[c] = [i \in 1..nlogs |-> LogSse(i)]
    /\ \A c \in Chans : \A i \in 1..Len(ingested[c]) :
          NoKnownFormat(ingested[c][i].data[2]) =>
              /\ ingested[c][i].data[3] = "none"
              /\ ingested[c][i].data[4] = EmptyMap

\* C21: what a subscription has yielded is a prefix of the snapshot captured
\* by subscribe(), in snapshot order, followed - only once the whole snapshot
\* has been yielded - by the events broadcast since its receiver was created,
\* in broadcast order; the snapshot is the history at the time of the capture
\* and no later step changes it; an ended subscription yields nothing more.
C21_TwoPhase ==
    /\ [](\A s \in Subs :
            sub[s].pc \in {"stream", "ended"} =>
                /\ sub[s].out = SubSeq(sub[s].snapshot, 1, sub[s].idx)
                                \o SubSeq(sent[sub[s].chan], sub[s].start + 1, sub[s].next)
                /\ sub[s].next > sub[s].start => sub[s].idx = Len(sub[s].snapshot))
    /\ [][\A s \in Subs :
            (sub[s].pc = "recvd" /\ sub'[s].pc = "subscribed") =>
                sub'[s].snapshot = history[sub[s].chan]]_vars
    /\ [][\A s \in Subs :
            sub[s].pc \in {"subscribed", "stream", "ended"} =>
                sub'[s].snapshot = sub[s].snapshot]_vars
    /\ [][\A s \in Subs :
            sub[s].pc = "ended" =>
                sub'[s].pc = "ended" /\ sub'[s].out = sub[s].out]_vars

\* C21 witness: a subscription has yielded its whole snapshot of HISTORY_SIZE
\* events, then its stats event and a log event posted after the capture;
\* the history has moved on since, the snapshot has not.
C21_Witness ==
    \E s \in Subs :
        /\ sub[s].pc = "stream"
        /\ Len(sub[s].snapshot) = HISTORY_SIZE
        /\ sub[s].idx = HISTORY_SIZE
        /\ Len(sub[s].out) = HISTORY_SIZE + 2
        /\ sub[s].out[HISTORY_SIZE + 2] = LogSse(nlogs)
        /\ sub[s].snapAt < nlogs
        /\ history[sub[s].chan] # sub[s].snapshot

\* C22: no subscription yields the same log event twice (every log event is
\* published once and carries its own line number).
C22_NoDuplicate ==
    \A s \in Subs : \A i, j \in 1..Len(sub[s].out) :
        (i < j /\ sub[s].out[i].event_type = "log") => sub[s].out[i] # sub[s].out[j]

\* the j-th log event pushed to the topic of subscription s has been yielded
Yielded(s, j) ==
    /\ sub[s].chan # NoChan
    /\ j <= Len(ingested[sub[s].chan])
    /\ ingested[sub[s].chan][j] \in Range(sub[s].out)

\* the positions a log event can have in the push order of the scenario
PushIndex == 1..(PreLogs + MaxLogs)

\* every log event pushed so far to the topic of subscription s that had not
\* been trimmed out of the history when the snapshot was taken (the events
\* of the snapshot and every event pushed after it) has been yielded
CaughtUp(s) ==
    /\ sub[s].chan # NoChan
    /\ \A j \in PushIndex :
          (j <= Len(ingested[sub[s].chan]) /\ j > sub[s].snapAt - HISTORY_SIZE)
              => Yielded(s, j)

\* C23: a subscription whose subscribe() has returned yields, unless it is
\* cancelled or cut off for lagging, every log event pushed to its topic
\* that was not already trimmed out of the history when the snapshot was
\* taken: from any moment on it reaches a point where the events of the
\* snapshot and every event pushed after it (which includes every event
\* whose publish_log started after subscribe() returned) have been yielded.
C23_NoGap ==
    \A s \in HistSubs :
        (sub[s].pc \in {"subscribed", "stream"})
        ~> (sub[s].end \in {"cancelled", "lagged"} \/ CaughtUp(s))

\* C23 witness: a line was pushed after the snapshot was taken (it is not in
\* the snapshot); the subscription has yielded it and every event of its
\* snapshot.
C23_Witness ==
    \E s \in HistSubs :
        /\ sub[s].pc = "stream"
        /\ Len(sub[s].snapshot) = HISTORY_SIZE
        /\ Len(ingested[sub[s].chan]) > sub[s].snapAt
        /\ LogSse(nlogs) \notin Range(sub[s].snapshot)
        /\ LogSse(nlogs) \in Range(sub[s].out)
        /\ CaughtUp(s)

\* what subscription s has received from its feed so far, in the order of
\* reception (channel_manager.rs 81-85)
LivePart(s) == SubSeq(sent[sub[s].chan], sub[s].start + 1, sub[s].next)

\* C24: two log events that a subscription received live and that are both
\* in the history of its topic are in the same relative order in the
\* history as in the order of reception.
C24_SameOrder ==
    \A s \in Subs :
        sub[s].pc \in {"stream", "ended"} =>
            \A i, j \in 1..Len(history[sub[s].chan]) :
                \A a, b \in 1..Len(LivePart(s)) :
                    (/\ i < j
                     /\ history[sub[s].chan][i].event_type = "log"
                     /\ history[sub[s].chan][j].event_type = "log"
                     /\ LivePart(s)[a] = history[sub[s].chan][i]
                     /\ LivePart(s)[b] = history[sub[s].chan][j])
                        => a < b

\* C25: the receiver count of a topic never exceeds the effective maximum
\* that the requests holding its receivers checked against.
C25_CapHolds ==
    \A s \in Subs :
        sub[s].rx => subscriber_count(sub[s].chan) <= MaxSubsOf(sub[s].id)

\* C26: a live subscription obtained for a name is attached to the topic
\* object that the registry currently indexes under that name.
C26_NoOrphan ==
    \A s \in Subs :
        (sub[s].rx /\ sub[s].pc \in {"subscribed", "stream"}) =>
            channels[sub[s].id] = sub[s].chan

====
